---- MODULE Spec2Model ----
(***************************************************************************)
(* Nexion: resource identity (slot pools), the bindless descriptor table   *)
(* and the swapchain frame-pacing protocol, as state machines.             *)
(*                                                                         *)
(* Several specifications share the module:                                *)
(*   Spec      the Resource Authority (InnerDevice): pools + descriptors   *)
(*   SpecSwap  the swapchain (InnerSwapchain / Swapchain) together with    *)
(*             the GPU, the display engine and the caller's frame loop     *)
(*   SpecFrameLoop  the swapchain driven by the renderer's frame loop,     *)
(*             with a GPU and a display engine that make progress          *)
(*   SpecExtent  the image extent InnerSwapchain::new chooses              *)
(*   SpecUpload  descriptor writes, upload_descriptors and the queues      *)
(*   SpecThreads  two threads creating and destroying on one Device        *)
(*   SpecBufferWrite  write_data_to_buffer on a buffer of a given size     *)
(*   SpecSubmit  InnerDevice::submit on batches of command buffers         *)
(*   SpecSelect  select_physical_device on the devices of an instance      *)
(*   SpecFamilies  get_queue_families on the queue families of a device    *)
(***************************************************************************)
EXTENDS Integers, Sequences, FiniteSets, TLC

VARIABLES
    pools,      \* InnerDevice.{buffer,image,image_view,sampler}_pool, InnerPipelineManager.pipelines
    bindless,   \* InnerDevice.bindless_descriptors: category -> slot index -> value (0 = unwritten)
    issued,     \* history: issued[kind][s] = the id given out for the s-th resource of the
                \* kind, the payload it was given out for, and whether it was deleted since
    last,       \* the last call made on the device and how it ended
    sc,         \* the InnerSwapchain the Swapchain handle points to
    kept,       \* the previous InnerSwapchain while a clone of the handle keeps it alive
    gpu,        \* submissions still executing on the GPU
    frame,      \* the caller's position in its frame loop
    slast,      \* the last call made on the swapchain and how it ended
    ext,        \* the surface capabilities, the size asked for and the extent chosen
    up,         \* descriptor writes, the submissions in the queues, what the GPU table holds
    thr,        \* a pool shared by two threads, and where each thread is in its call
    buf,        \* a buffer, its memory and the memory behind it
    sub,        \* the three queues with what was submitted to them, and the last submit
    sel,        \* the physical devices of the instance and what the selection returned
    fam         \* the queue families of a physical device and the indices found

devVars == <<pools, bindless, issued, last>>
swapVars == <<sc, kept, gpu, frame, slast>>
extVars == <<ext, up, thr, buf, sub, sel, fam>>
vars == <<pools, bindless, issued, last, sc, kept, gpu, frame, slast, ext, up, thr, buf, sub, sel,
          fam>>

----------------------------------------------------------------------------
(* Bounds of the model *)

MaxCreates == 3        \* resources created in one run
PageSize == 2          \* slots per page of a ResourcePool
MaxImageCount == 3     \* SwapchainDescription.image_count is in 1..MaxImageCount
ExtraImages == 1       \* images the display engine may create beyond image_count
MaxAcquires == 5       \* acquire_image calls that return in one run
MaxRecreates == 1      \* recreate_swapchain calls in one run

MaxExtent == 2         \* surface extents are in 1..MaxExtent, sizes asked for in 0..MaxExtent + 1
MaxWrites == 2         \* descriptor writes in one run of the upload specification
MaxThreadCreates == 3  \* creates the two threads begin in one run
MaxBufferSize == 3     \* buffers of 1..MaxBufferSize elements, data of 0..MaxBufferSize + 1
MaxBufferWrites == 3   \* write_data_to_buffer calls in one run
MaxBatch == 2          \* command buffers in one submit
MaxDeviceSubmits == 2  \* InnerDevice::submit calls in one run
MaxFamilies == 3       \* queue families a physical device reports
MaxDevices == 2        \* physical devices the instance enumerates
MaxSubmits == 4        \* submissions (uploads and command streams) in one run of it

(* Program constants *)

NullId == 2147483647   \* BufferId::null(): u64::MAX, the largest id there is
DescCapacity == 100    \* GpuBindlessDescriptorPool::new(.., 100, 100, 100)
DiscreteScore == 1000  \* select_physical_device: DISCRETE_GPU => 1000
IntegratedScore == 100 \*                         INTEGRATED_GPU => 100
OtherScore == 10       \*                         _ => 10
U32Max == 2147483647   \* u32::MAX, the current_extent.width of a surface that fixes no size

Kinds == {"buffer", "image", "view", "sampler", "pipeline"}
Categories == {"buffer", "sampled", "storage", "sampler"}

----------------------------------------------------------------------------
(* ResourcePool<T>: a paged array of slots and a stack of freed indices.   *)

NoPayload == [handle |-> 0, address |-> 0, mapped |-> FALSE]
EmptySlot == [some |-> FALSE, val |-> NoPayload]
EmptyPage == [i \in 1..PageSize |-> EmptySlot]

ResourcePool_new == [data |-> <<>>, free_indices |-> <<>>, len |-> 0]

InRange(pool, id) == id >= 0 /\ id < Len(pool.data) * PageSize

SlotAt(pool, id) == pool.data[(id \div PageSize) + 1][(id % PageSize) + 1]

IsLive(pool, id) == InRange(pool, id) /\ SlotAt(pool, id).some

SetSlot(pool, id, slot) ==
    [pool EXCEPT !.data[(id \div PageSize) + 1][(id % PageSize) + 1] = slot]

\* add(payload) -> id: a freed index first (last freed, first reused), else the
\* next unused index, appending a page when the pages are full.
add(pool, payload) ==
    IF pool.free_indices # <<>>
    THEN LET id == pool.free_indices[Len(pool.free_indices)]
             popped == [pool EXCEPT !.free_indices = SubSeq(@, 1, Len(@) - 1)]
         IN [id |-> id, pool |-> SetSlot(popped, id, [some |-> TRUE, val |-> payload])]
    ELSE LET id == pool.len
             grown == IF id = Len(pool.data) * PageSize
                      THEN [pool EXCEPT !.data = Append(@, EmptyPage)]
                      ELSE pool
             counted == [grown EXCEPT !.len = @ + 1]
         IN [id |-> id, pool |-> SetSlot(counted, id, [some |-> TRUE, val |-> payload])]

\* delete(id) -> payload: fatal on an id whose slot is not occupied.
delete(pool, id) ==
    IF IsLive(pool, id)
    THEN [ok |-> TRUE, val |-> SlotAt(pool, id).val,
          pool |-> [SetSlot(pool, id, EmptySlot) EXCEPT !.free_indices = Append(@, id)]]
    ELSE [ok |-> FALSE, val |-> NoPayload, pool |-> pool]

\* get_ref(id) -> &payload: fatal under the same condition.
get_ref(pool, id) ==
    IF IsLive(pool, id)
    THEN [ok |-> TRUE, val |-> SlotAt(pool, id).val]
    ELSE [ok |-> FALSE, val |-> NoPayload]

LiveIds(pool) == {id \in 0..(Len(pool.data) * PageSize - 1) : SlotAt(pool, id).some}

----------------------------------------------------------------------------
(* The caller's side of the device.                                        *)

Panicked == last.result = "panic"

Created == Len(issued["buffer"]) + Len(issued["image"]) + Len(issued["view"])
           + Len(issued["sampler"]) + Len(issued["pipeline"])

\* vkGetBufferDeviceAddress: a device address per native buffer
DeviceAddress(handle) == 4096 * handle

\* BufferSlot { handle, address, allocation }: a native object comes with a
\* fresh handle (the serial of the resource within its kind); a host-visible
\* allocation has a mapped pointer.
BufferSlot(serial, mapped) ==
    [handle |-> serial, address |-> DeviceAddress(serial), mapped |-> mapped]

\* ImageSlot, ImageViewSlot, SamplerSlot, PipelineSlot
NativeSlot(serial) == [handle |-> serial, address |-> 0, mapped |-> FALSE]

\* The ids a caller can pass: every id it was ever given (with the resource
\* it was given for), an id never issued, and the null sentinel.
CallerHandles(kind) ==
    {[id |-> issued[kind][s].id, intent |-> s] : s \in 1..Len(issued[kind])}
    \cup {[id |-> pools[kind].len, intent |-> 0], [id |-> NullId, intent |-> 0]}

\* op: the call; id/intent: the id passed and the resource the caller was given
\* it for (0: none); result: "ok" or "panic"; value: the handle of the payload
\* the call reached; out: what it returned; fault: the platform failure injected.
\* About the state the call was made in: occupied: the slot of id held a
\* payload; fresh: it held the payload of intent; reused: it held another one.
\* changed: the call changed a pool or the descriptor table.
\* steps: the steps of a destroy call that were completed, in their order.
\* cat, index: the category and the index of a descriptor write.
Call(op, kind, id, intent, result, value, out, fault) ==
    [op |-> op, kind |-> kind, id |-> id, intent |-> intent,
     result |-> result, value |-> value, out |-> out, fault |-> fault,
     occupied |-> FALSE, fresh |-> FALSE, reused |-> FALSE, changed |-> FALSE,
     steps |-> <<>>, cat |-> "none", index |-> 0]

InitDev ==
    /\ pools = [k \in Kinds |-> ResourcePool_new]
    /\ bindless = [c \in Categories |-> [i \in 0..(DescCapacity - 1) |-> 0]]
    /\ issued = [k \in Kinds |-> <<>>]
    /\ last = Call("init", "none", 0, 0, "ok", 0, 0, "none")

----------------------------------------------------------------------------
(* GpuBindlessDescriptorPool: one fixed array of slots per category; a     *)
(* write overwrites its slot, a write beyond the capacity is fatal.        *)

desc_write(table, cat, value, index) ==
    IF index < DescCapacity
    THEN [ok |-> TRUE, table |-> [table EXCEPT ![cat][index] = value]]
    ELSE [ok |-> FALSE, table |-> table]

----------------------------------------------------------------------------
(* InnerDevice / InnerPipelineManager operations on d = the device's       *)
(* state. Each gives [ok, id, handle, out, d]: ok = FALSE is a panic.      *)

Dev == [pools |-> pools, bindless |-> bindless, issued |-> issued]

\* platform failures: of vkCreate*, of Allocator::allocate, of vkBind*Memory
Faults == {"none", "create", "alloc", "bind"}
CreateFaults == {"none", "create"}

Panic(d) == [ok |-> FALSE, id |-> 0, handle |-> 0, out |-> 0, d |-> d]

\* the pool's add, and the note of what id the caller got for what payload
\* (freed: the how-manieth delete of the pool removed it; 0 while it is live)
Issue(d, kind, payload) ==
    LET r == add(d.pools[kind], payload)
    IN [ok |-> TRUE, id |-> r.id, handle |-> payload.handle, out |-> r.id,
        d |-> [d EXCEPT !.pools[kind] = r.pool,
                        !.issued[kind] = Append(@, [id |-> r.id, live |-> TRUE,
                                                    payload |-> payload, freed |-> 0])]]

\* the deletes a pool has seen
Deletes(notes) == Cardinality({s \in DOMAIN notes : ~notes[s].live})

\* the note that what was given out for id, and is live, is gone
Gone(notes, id) ==
    [s \in DOMAIN notes |->
        IF notes[s].id = id /\ notes[s].live
        THEN [notes[s] EXCEPT !.live = FALSE, !.freed = Deletes(notes) + 1]
        ELSE notes[s]]

\* Variant of the delete that puts the freed index under the other freed ones.
Remove_index_last(d, kind, id) ==
    LET r == delete(d.pools[kind], id)
    IN IF r.ok
       THEN [ok |-> TRUE, id |-> id, handle |-> r.val.handle, out |-> 0,
             d |-> [d EXCEPT !.pools[kind] =
                                 [r.pool EXCEPT !.free_indices =
                                     <<id>> \o SubSeq(@, 1, Len(@) - 1)],
                             !.issued[kind] = Gone(@, id)]]
       ELSE Panic(d)

\* the pool's delete, and the note that what was given out for id is gone
Remove(d, kind, id) ==
    LET r == delete(d.pools[kind], id)
    IN IF r.ok
       THEN [ok |-> TRUE, id |-> id, handle |-> r.val.handle, out |-> 0,
             d |-> [d EXCEPT !.pools[kind] = r.pool,
                             !.issued[kind] = Gone(@, id)]]
       ELSE Panic(d)

InnerDevice_create_buffer(d, mapped, fault) ==
    IF fault # "none"
    THEN Panic(d)     \* .expect(..) on create_buffer / allocate / bind_buffer_memory
    ELSE Issue(d, "buffer", BufferSlot(Len(d.issued["buffer"]) + 1, mapped))

\* the failure of Allocator::free in a destroy call
DestroyFaults == {"none", "free"}

\* a destroy call that has completed the pool's delete (res) and the given
\* further steps; stopped: it ended in a panic after them
Destroyed(res, more, stopped) ==
    [ok |-> ~stopped, id |-> res.id, handle |-> res.handle, out |-> 0, d |-> res.d,
     steps |-> <<"delete">> \o more]

\* Variant of destroy_buffer that destroys the native buffer first, then
\* releases the allocation, and frees the pool slot last.
destroy_buffer_native_first(d, id, fault) ==
    LET res == Remove(d, "buffer", id)
    IN IF ~res.ok THEN Panic(d)
       ELSE IF fault = "free"
       THEN [ok |-> FALSE, id |-> id, handle |-> res.handle, out |-> 0, d |-> d,
             steps |-> <<"destroy">>]
       ELSE [ok |-> TRUE, id |-> id, handle |-> res.handle, out |-> 0, d |-> res.d,
             steps |-> <<"destroy", "free", "delete">>]

\* lines 372-379: delete(id.id); allocator.free(res.allocation).expect(..);
\* handle.destroy_buffer(res.handle)
InnerDevice_destroy_buffer(d, id, fault) ==
    LET res == Remove(d, "buffer", id)
    IN IF ~res.ok THEN Panic(d)
       ELSE IF fault = "free" THEN Destroyed(res, <<>>, TRUE)
       ELSE Destroyed(res, <<"free", "destroy">>, FALSE)

InnerDevice_get_raw_ptr(d, id) ==
    LET r == get_ref(d.pools["buffer"], id)
    IN IF r.ok /\ r.val.mapped
       THEN [ok |-> TRUE, id |-> id, handle |-> r.val.handle, out |-> r.val.handle, d |-> d]
       ELSE Panic(d)

\* Variant of get_device_address that looks the buffer up in the first slot.
get_device_address_first_slot(d, id) ==
    LET r == get_ref(d.pools["buffer"], 0)
    IN IF r.ok
       THEN [ok |-> TRUE, id |-> id, handle |-> r.val.handle, out |-> r.val.address, d |-> d]
       ELSE Panic(d)

InnerDevice_get_device_address(d, id) ==
    LET r == get_ref(d.pools["buffer"], id)
    IN IF r.ok
       THEN [ok |-> TRUE, id |-> id, handle |-> r.val.handle, out |-> r.val.address, d |-> d]
       ELSE Panic(d)

InnerDevice_create_image(d, fault) ==
    IF fault # "none"
    THEN Panic(d)
    ELSE Issue(d, "image", NativeSlot(Len(d.issued["image"]) + 1))

\* Variant of destroy_image that looks the image up and leaves it in its slot.
destroy_image_keep_slot(d, id, fault) ==
    LET img == get_ref(d.pools["image"], id)
    IN IF ~img.ok THEN Panic(d)
       ELSE [ok |-> TRUE, id |-> id, handle |-> img.val.handle, out |-> 0, d |-> d,
             steps |-> <<"delete", "free", "destroy">>]

\* lines 446-453: delete(id.id); allocator.free(img.allocation).expect(..);
\* handle.destroy_image(img.handle)
InnerDevice_destroy_image(d, id, fault) ==
    LET img == Remove(d, "image", id)
    IN IF ~img.ok THEN Panic(d)
       ELSE IF fault = "free" THEN Destroyed(img, <<>>, TRUE)
       ELSE Destroyed(img, <<"free", "destroy">>, FALSE)

InnerDevice_create_image_view(d, image_id, fault) ==
    LET img == get_ref(d.pools["image"], image_id)
    IN IF ~img.ok \/ fault # "none"
       THEN Panic(d)
       ELSE [Issue(d, "view", NativeSlot(Len(d.issued["view"]) + 1))
                 EXCEPT !.handle = img.val.handle]

InnerDevice_destroy_image_view(d, id) == Remove(d, "view", id)

InnerDevice_create_sampler(d, fault) ==
    IF fault # "none"
    THEN Panic(d)
    ELSE Issue(d, "sampler", NativeSlot(Len(d.issued["sampler"]) + 1))

InnerDevice_destroy_sampler(d, id) == Remove(d, "sampler", id)

InnerPipelineManager_create_compute_pipeline(d, fault) ==
    IF fault # "none"
    THEN Panic(d)
    ELSE Issue(d, "pipeline", NativeSlot(Len(d.issued["pipeline"]) + 1))

InnerPipelineManager_destroy_pipeline(d, id) == Remove(d, "pipeline", id)

\* the three descriptor writes: get_ref, then the table write
WriteSlot(d, kind, id, cat, index) ==
    LET r == get_ref(d.pools[kind], id)
        v == IF kind = "buffer" THEN r.val.address ELSE r.val.handle
        w == desc_write(d.bindless, cat, v, index)
    IN IF r.ok /\ w.ok
       THEN [ok |-> TRUE, id |-> id, handle |-> r.val.handle, out |-> v,
             d |-> [d EXCEPT !.bindless = w.table]]
       ELSE Panic(d)

\* Variant of write_buffer that wraps the index around the capacity.
write_buffer_wrapped(d, id, index) ==
    WriteSlot(d, "buffer", id, "buffer", index % DescCapacity)

InnerDevice_write_buffer(d, id, index) == WriteSlot(d, "buffer", id, "buffer", index)

\* cat: ImageDescriptorType::SampledImage ("sampled") or StorageImage ("storage")
InnerDevice_write_image(d, view_id, cat, index) == WriteSlot(d, "view", view_id, cat, index)

\* Variant of write_sampler that takes the next slot when the slot of the
\* index is already written.
write_sampler_next_slot(d, id, index) ==
    IF index < DescCapacity - 1 /\ d.bindless["sampler"][index] # 0
    THEN WriteSlot(d, "sampler", id, "sampler", index + 1)
    ELSE WriteSlot(d, "sampler", id, "sampler", index)

InnerDevice_write_sampler(d, id, index) == WriteSlot(d, "sampler", id, "sampler", index)

\* Device::create_texture: create_image, create_image_view, write_image(SampledImage)
Device_create_texture(d, index, fault) ==
    LET img == InnerDevice_create_image(d, fault)
        view == InnerDevice_create_image_view(img.d, img.id, "none")
        w == InnerDevice_write_image(view.d, view.id, "sampled", index)
    IN IF ~img.ok THEN img
       ELSE IF ~w.ok THEN Panic(view.d)
       ELSE [ok |-> TRUE, id |-> img.id, handle |-> img.handle, out |-> view.id, d |-> w.d]

\* Device::destory_texture: destroy_image, then destroy_image_view
Device_destory_texture(d, image_id, view_id) ==
    LET img == InnerDevice_destroy_image(d, image_id, "none")
        view == InnerDevice_destroy_image_view(img.d, view_id)
    IN IF ~img.ok THEN img
       ELSE IF ~view.ok THEN Panic(img.d)
       ELSE [ok |-> TRUE, id |-> image_id, handle |-> img.handle, out |-> view.handle, d |-> view.d]

----------------------------------------------------------------------------
(* The calls, as actions of the device specification.                      *)

\* the first slot, and the first index beyond the capacity
WriteIndices == {0, DescCapacity}

Res(r) == IF r.ok THEN "ok" ELSE "panic"

\* the steps a destroy call completed; the other calls have none to tell
Steps(r) == IF "steps" \in DOMAIN r THEN r.steps ELSE <<>>

DoneAt(r, op, kind, h, fault, cat, index) ==
    /\ pools' = r.d.pools
    /\ bindless' = r.d.bindless
    /\ issued' = r.d.issued
    /\ last' = [Call(op, kind, h.id, h.intent, Res(r), r.handle, r.out, fault) EXCEPT
                    !.occupied = kind \in Kinds /\ IsLive(pools[kind], h.id),
                    !.fresh = h.intent # 0 /\ issued[kind][h.intent].live,
                    !.reused = /\ h.intent # 0 /\ ~issued[kind][h.intent].live
                               /\ IsLive(pools[kind], h.id),
                    !.changed = r.d.pools # pools \/ r.d.bindless # bindless,
                    !.steps = Steps(r),
                    !.cat = cat,
                    !.index = index]
    /\ UNCHANGED <<swapVars, extVars>>

Done(r, op, kind, h, fault) == DoneAt(r, op, kind, h, fault, "none", 0)

NoHandle == [id |-> 0, intent |-> 0]

CanCreate(n) == ~Panicked /\ Created + n <= MaxCreates

create_buffer ==
    /\ CanCreate(1)
    /\ \E mapped \in BOOLEAN, fault \in Faults :
          Done(InnerDevice_create_buffer(Dev, mapped, fault), "create_buffer", "buffer", NoHandle, fault)

destroy_buffer ==
    /\ ~Panicked
    /\ \E h \in CallerHandles("buffer"), fault \in DestroyFaults :
          Done(InnerDevice_destroy_buffer(Dev, h.id, fault), "destroy_buffer", "buffer", h, fault)

get_raw_ptr ==
    /\ ~Panicked
    /\ \E h \in CallerHandles("buffer") :
          Done(InnerDevice_get_raw_ptr(Dev, h.id), "get_raw_ptr", "buffer", h, "none")

get_buffer_address ==
    /\ ~Panicked
    /\ \E h \in CallerHandles("buffer") :
          Done(InnerDevice_get_device_address(Dev, h.id), "get_buffer_address", "buffer", h, "none")

create_image ==
    /\ CanCreate(1)
    /\ \E fault \in Faults :
          Done(InnerDevice_create_image(Dev, fault), "create_image", "image", NoHandle, fault)

destroy_image ==
    /\ ~Panicked
    /\ \E h \in CallerHandles("image"), fault \in DestroyFaults :
          Done(InnerDevice_destroy_image(Dev, h.id, fault), "destroy_image", "image", h, fault)

create_image_view ==
    /\ CanCreate(1)
    /\ \E h \in CallerHandles("image"), fault \in CreateFaults :
          Done(InnerDevice_create_image_view(Dev, h.id, fault), "create_image_view", "image", h, fault)

destroy_image_view ==
    /\ ~Panicked
    /\ \E h \in CallerHandles("view") :
          Done(InnerDevice_destroy_image_view(Dev, h.id), "destroy_image_view", "view", h, "none")

create_sampler ==
    /\ CanCreate(1)
    /\ \E fault \in CreateFaults :
          Done(InnerDevice_create_sampler(Dev, fault), "create_sampler", "sampler", NoHandle, fault)

destroy_sampler ==
    /\ ~Panicked
    /\ \E h \in CallerHandles("sampler") :
          Done(InnerDevice_destroy_sampler(Dev, h.id), "destroy_sampler", "sampler", h, "none")

create_compute_pipeline ==
    /\ CanCreate(1)
    /\ \E fault \in CreateFaults :
          Done(InnerPipelineManager_create_compute_pipeline(Dev, fault),
               "create_compute_pipeline", "pipeline", NoHandle, fault)

destroy_pipeline ==
    /\ ~Panicked
    /\ \E h \in CallerHandles("pipeline") :
          Done(InnerPipelineManager_destroy_pipeline(Dev, h.id), "destroy_pipeline", "pipeline", h, "none")

write_buffer ==
    /\ ~Panicked
    /\ \E h \in CallerHandles("buffer"), index \in WriteIndices :
          DoneAt(InnerDevice_write_buffer(Dev, h.id, index), "write_buffer", "buffer", h, "none",
                 "buffer", index)

write_image ==
    /\ ~Panicked
    /\ \E h \in CallerHandles("view"), cat \in {"sampled", "storage"}, index \in WriteIndices :
          DoneAt(InnerDevice_write_image(Dev, h.id, cat, index), "write_image", "view", h, "none",
                 cat, index)

write_sampler ==
    /\ ~Panicked
    /\ \E h \in CallerHandles("sampler"), index \in WriteIndices :
          DoneAt(InnerDevice_write_sampler(Dev, h.id, index), "write_sampler", "sampler", h, "none",
                 "sampler", index)

create_texture ==
    /\ CanCreate(2)
    /\ \E index \in WriteIndices, fault \in Faults :
          DoneAt(Device_create_texture(Dev, index, fault), "create_texture", "image", NoHandle, fault,
                 "sampled", index)

destory_texture ==
    /\ ~Panicked
    /\ \E h \in CallerHandles("image"), v \in CallerHandles("view") :
          Done(Device_destory_texture(Dev, h.id, v.id), "destory_texture", "image", h, "none")

\* the calls that reach a pool through an id the caller passes
AccessOps ==
    {"destroy_buffer", "get_raw_ptr", "get_buffer_address", "destroy_image",
     "create_image_view", "destroy_image_view", "destroy_sampler", "destroy_pipeline",
     "write_buffer", "write_image", "write_sampler", "destory_texture"}

NextDev ==
    \/ create_buffer \/ destroy_buffer \/ get_raw_ptr \/ get_buffer_address
    \/ create_image \/ destroy_image \/ create_image_view \/ destroy_image_view
    \/ create_sampler \/ destroy_sampler
    \/ create_compute_pipeline \/ destroy_pipeline
    \/ write_buffer \/ write_image \/ write_sampler
    \/ create_texture \/ destory_texture

----------------------------------------------------------------------------
(* Properties of the pools and the descriptor table.                       *)

\* C1: an id whose resource was deleted stays dead after its index is given
\* out again: a call made with the old id is rejected, it never returns or
\* removes the payload of the resource that now owns the index.
StaleIdRejected ==
    (last.op \in AccessOps /\ last.reused) => last.result = "panic"

\* C3: as long as an id is live, get_ref on it gives the payload stored by the
\* add that returned it, whatever was added and deleted in between; a call
\* made with it reaches that payload, and get_buffer_address returns the
\* address of that buffer.
LiveIdGivesItsPayload ==
    /\ \A k \in Kinds : \A s \in 1..Len(issued[k]) :
          issued[k][s].live =>
              get_ref(pools[k], issued[k][s].id) = [ok |-> TRUE, val |-> issued[k][s].payload]
    /\ (last.op \in AccessOps /\ last.fresh) =>
          /\ last.result = "ok" => last.value = last.intent
          /\ last.op = "get_buffer_address" =>
                last.result = "ok" /\ last.out = DeviceAddress(last.intent)
          /\ last.op \in {"destroy_buffer", "destroy_image", "destroy_image_view",
                           "destroy_sampler", "destroy_pipeline"} =>
                (last.fault = "none" => last.result = "ok")

\* C3 happens: B's address is read after A was deleted and A's index reused.
LiveIdRead ==
    /\ last.op = "get_buffer_address" /\ last.fresh /\ last.intent = 2
    /\ Len(issued["buffer"]) = 3
    /\ ~issued["buffer"][1].live
    /\ issued["buffer"][3].id = issued["buffer"][1].id

\* C4: a call made with an id that is not live (never issued, out of range,
\* the null id, or the id of a resource that was deleted) fails fatally and
\* changes neither the pools nor the descriptor table; so does every call
\* made with A after destroy_buffer(A).
NonLiveIdIsFatal ==
    (/\ last.op \in AccessOps
     /\ ~last.occupied \/ (last.intent # 0 /\ ~last.fresh)) =>
        last.result = "panic" /\ ~last.changed

\* What holds of C4: a call made with an id whose slot holds no payload
\* fails fatally and changes nothing.
EmptySlotIsFatal ==
    (last.op \in AccessOps /\ ~last.occupied) =>
        last.result = "panic" /\ ~last.changed

\* what a descriptor slot of a category refers to
DescKind(cat) ==
    IF cat = "buffer" THEN "buffer" ELSE IF cat = "sampler" THEN "sampler" ELSE "view"

DescValue(cat, payload) == IF cat = "buffer" THEN payload.address ELSE payload.handle

\* C5: every slot of the descriptor table is unwritten or refers to a
\* resource that is live in its pool.
DescriptorsReferToLive ==
    \A cat \in Categories : \A i \in 0..(DescCapacity - 1) :
        \/ bindless[cat][i] = 0
        \/ \E id \in LiveIds(pools[DescKind(cat)]) :
              DescValue(cat, SlotAt(pools[DescKind(cat)], id).val) = bindless[cat][i]

\* C9: a failure of the allocator, of the bind or of the native creation in
\* create_buffer / create_image comes back to the caller as an error value:
\* the process goes on and no slot of the pool was taken.
CreationFailureIsReturned ==
    (last.op \in {"create_buffer", "create_image"} /\ last.fault # "none") =>
        last.result = "error" /\ ~last.changed

----------------------------------------------------------------------------
(* InnerSwapchain. Vectors are indexed from 0 in the code and from 1 here: *)
(* fences[f + 1] is the state of the fence of frame slot f (TRUE =         *)
(* signaled). count is the number of acquire_image calls that returned on  *)
(* this InnerSwapchain, before the number that returned on earlier ones.   *)

NoSwapchain ==
    [inst |-> 0, image_count |-> 0, frames_in_flight |-> 0, n_images |-> 0,
     preset_semaphores |-> 0, image_semaphores |-> 0,
     curr_img_indeices |-> <<>>, image_timeline |-> 0, frame_timeline |-> 0,
     fences |-> <<>>, refs |-> 0, count |-> 0, before |-> 0]

\* InnerSwapchain::new, after its assert: n images from the display engine,
\* image_count present-ready semaphores (lines 144-152), image_count acquire
\* semaphores and fences (lines 154-164), every fence created signaled.
\* preset_semaphores and image_semaphores are the lengths of the vectors.
InnerSwapchain_new(inst, image_count, frames_in_flight, n_images, before) ==
    [inst |-> inst, image_count |-> image_count, frames_in_flight |-> frames_in_flight,
     n_images |-> n_images,
     preset_semaphores |-> image_count, image_semaphores |-> image_count,
     curr_img_indeices |-> <<>>, image_timeline |-> 0, frame_timeline |-> 0,
     fences |-> [i \in 1..image_count |-> TRUE], refs |-> 1, count |-> 0,
     before |-> before]

\* what a caller can ask for, with the number of images the display engine
\* then creates: at least min_image_count = image_count
Descriptions ==
    {d \in [image_count : 1..MaxImageCount, frames_in_flight : 0..(MaxImageCount + 1),
            n_images : 1..(MaxImageCount + ExtraImages)] :
        /\ d.n_images >= d.image_count
        /\ d.n_images <= d.image_count + ExtraImages}

\* Variant of line 71 without the assert.
DescAccepted_any(image_count, frames_in_flight) == TRUE

\* assert!(frames_in_flight <= image_count)
DescAccepted(image_count, frames_in_flight) == frames_in_flight <= image_count

\* Device::create_swapchain: InnerSwapchain::new with no old swapchain; a
\* failed assert leaves nothing created
Device_create_swapchain(image_count, frames_in_flight, n_images) ==
    IF DescAccepted(image_count, frames_in_flight)
    THEN [ok |-> TRUE, s |-> InnerSwapchain_new(1, image_count, frames_in_flight, n_images, 0)]
    ELSE [ok |-> FALSE, s |-> NoSwapchain]

\* the images the application holds: acquired and not yet handed to present
Held(s) == {s.curr_img_indeices[i] : i \in 1..Len(s.curr_img_indeices)}

\* vkAcquireNextImage2KHR, vkQueuePresentKHR: what the display engine answers
EngineStatus == {"success", "suboptimal", "out_of_date"}

\* ash: SUCCESS -> Ok(.., false), SUBOPTIMAL_KHR -> Ok(.., true), else Err(..)
AshOk(status) == status \in {"success", "suboptimal"}

----------------------------------------------------------------------------
(* The GPU: the submissions still executing, each with the fence it was    *)
(* given, [inst, slot]; copy tells apart submissions given the same fence. *)

Executing(s, g) == {e \in g : e.inst = s.inst}

\* fences of s signaled by the completion of the submissions in done
Signal(s, done) ==
    [s EXCEPT !.fences =
        [i \in DOMAIN @ |-> @[i] \/ (\E e \in done : e.inst = s.inst /\ e.slot = i - 1)]]

\* vkDeviceWaitIdle: returns when every submission has completed
InnerDevice_wait_idle(w) ==
    [w EXCEPT !.sc = Signal(w.sc, w.gpu), !.kept = Signal(w.kept, w.gpu), !.gpu = {}]

World == [sc |-> sc, kept |-> kept, gpu |-> gpu]

----------------------------------------------------------------------------
(* acquire_image, present and Drop on a swapchain s.                       *)

SCall ==
    [op |-> "init", result |-> "ok", status |-> "success", slot |-> 0, index |-> 0,
     blocked |-> FALSE, requested |-> FALSE, seen_signaled |-> FALSE,
     fence_at_call |-> FALSE, fence_at_request |-> FALSE,
     released |-> 0, busy |-> 0, busy_before |-> 0,
     sem |-> 0, asked |-> [image_count |-> 0, frames_in_flight |-> 0],
     fault |-> "none"]

\* op: the call; status: the display engine's answer; slot: the frame slot;
\* index: the image; blocked: the call waited in wait_for_fences; requested:
\* the display engine was called; fence_at_call, seen_signaled,
\* fence_at_request: the slot's fence when the call was made, when
\* wait_for_fences returned, when the engine was called; released: the
\* InnerSwapchain whose objects the call destroyed (0: none), busy_before and
\* busy: its submissions executing when Drop began and when it destroyed.
\* sem: the present-ready semaphore the present request waits on; asked: the
\* description a swapchain was asked for. fault: what a panic of the call
\* came from when it was not the display engine's answer: "index" (a vector
\* indexed out of its range) or "division" (a remainder by zero).

\* Variant of line 232 that returns at once.
wait_for_fences_no_wait(s, f) == TRUE

\* line 232: wait_for_fences(fence, true, u64::MAX) returns when the fence is signaled
wait_for_fences(s, f) == s.fences[f + 1]

\* Variant of lines 232-233 without reset_fences.
wait_and_keep(s, f) == [s |-> s, seen |-> s.fences[f + 1]]

\* lines 232-233: wait_for_fences returns once the fence is signaled, then
\* reset_fences; what the wait saw is kept for the call record
wait_and_reset(s, f) ==
    [s |-> [s EXCEPT !.fences[f + 1] = FALSE], seen |-> s.fences[f + 1]]

\* Variant of line 246 that wraps the frame slot at image_count.
frame_timeline_by_images(s) == (s.frame_timeline + 1) % s.image_count

\* line 246: the frame slot of the next call
frame_timeline_next(s) == (s.frame_timeline + 1) % s.frames_in_flight

\* Variant of lines 249-256 that takes the image at the image rotation counter.
AcquiredImage_by_timeline(s, index, frame_timeline) ==
    [inst |-> s.inst, image |-> s.image_timeline, view |-> s.image_timeline,
     image_semaphore |-> frame_timeline, present_semaphore |-> s.image_timeline,
     fence |-> frame_timeline, curr_frame |-> frame_timeline]

\* lines 249-256: images[index], image_views[index], preset_semaphores[index],
\* image_semaphores[frame_timeline], fences[frame_timeline]
AcquiredImage(s, index, frame_timeline) ==
    [inst |-> s.inst, image |-> index, view |-> index,
     image_semaphore |-> frame_timeline, present_semaphore |-> index,
     fence |-> frame_timeline, curr_frame |-> frame_timeline]

\* lines 224-257 from the return of wait_for_fences on. index and status are
\* the display engine's answer. Gives the swapchain after the call, the
\* AcquiredImage and the call record.
InnerSwapchain_acquire_image(s, index, status, blocked) ==
    LET image_timeline == s.image_timeline
        frame_timeline == s.frame_timeline
        wr == wait_and_reset(s, frame_timeline)
        call == [SCall EXCEPT !.op = "acquire_image", !.status = status,
                              !.slot = frame_timeline, !.index = index,
                              !.blocked = blocked, !.requested = TRUE,
                              !.seen_signaled = wr.seen,
                              !.fence_at_request = wr.s.fences[frame_timeline + 1]]
        pushed == [wr.s EXCEPT !.curr_img_indeices = Append(@, index),
                               !.image_timeline = (image_timeline + 1) % s.image_count]
        img == AcquiredImage(s, index, frame_timeline)
    IN IF ~AshOk(status)     \* .expect(..) on acquire_next_image2
       THEN [s |-> wr.s, ok |-> FALSE, img |-> img, call |-> [call EXCEPT !.result = "panic"]]
       ELSE IF s.frames_in_flight = 0     \* line 246: remainder by zero
       THEN [s |-> pushed, ok |-> FALSE, img |-> img,
             call |-> [call EXCEPT !.result = "panic", !.fault = "division"]]
       ELSE IF index >= s.image_count     \* line 253: preset_semaphores[index]
       THEN [s |-> [pushed EXCEPT !.frame_timeline = frame_timeline_next(s)],
             ok |-> FALSE, img |-> img,
             call |-> [call EXCEPT !.result = "panic", !.fault = "index"]]
       ELSE [s |-> [pushed EXCEPT !.frame_timeline = frame_timeline_next(s),
                                  !.count = @ + 1],
             ok |-> TRUE, img |-> img, call |-> call]

\* Variant of present that takes for granted that an image is pending
\* (pop_back().unwrap()).
present_unwrap(s, status) ==
    IF s.curr_img_indeices = <<>>
    THEN [s |-> s, call |-> [SCall EXCEPT !.op = "present", !.result = "panic"]]
    ELSE LET index == s.curr_img_indeices[Len(s.curr_img_indeices)]
             popped == [s EXCEPT !.curr_img_indeices = SubSeq(@, 1, Len(@) - 1)]
             call == [SCall EXCEPT !.op = "present", !.status = status, !.index = index,
                                   !.requested = TRUE, !.sem = index]
         IN IF AshOk(status)
            THEN [s |-> popped, call |-> call]
            ELSE [s |-> popped, call |-> [call EXCEPT !.result = "panic"]]

\* Variant of present that takes the oldest pending image (pop_front).
present_oldest(s, status) ==
    IF s.curr_img_indeices = <<>>
    THEN [s |-> s, call |-> [SCall EXCEPT !.op = "present"]]
    ELSE LET index == s.curr_img_indeices[1]
             popped == [s EXCEPT !.curr_img_indeices = Tail(@)]
             call == [SCall EXCEPT !.op = "present", !.status = status, !.index = index,
                                   !.requested = TRUE, !.sem = index]
         IN IF AshOk(status)
            THEN [s |-> popped, call |-> call]
            ELSE [s |-> popped, call |-> [call EXCEPT !.result = "panic"]]

\* lines 259-277: pop_back, preset_semaphores[index], queue_present(..).expect(..)
InnerSwapchain_present(s, status) ==
    IF s.curr_img_indeices = <<>>
    THEN [s |-> s, call |-> [SCall EXCEPT !.op = "present"]]
    ELSE LET index == s.curr_img_indeices[Len(s.curr_img_indeices)]
             popped == [s EXCEPT !.curr_img_indeices = SubSeq(@, 1, Len(@) - 1)]
             call == [SCall EXCEPT !.op = "present", !.status = status, !.index = index,
                                   !.requested = TRUE, !.sem = index]
         IN IF AshOk(status)
            THEN [s |-> popped, call |-> call]
            ELSE [s |-> popped, call |-> [call EXCEPT !.result = "panic"]]

\* Variant of Drop that destroys without wait_idle.
drop_without_wait(s, w) ==
    [w |-> w,
     call |-> [SCall EXCEPT !.released = s.inst,
                            !.busy_before = Cardinality(Executing(s, w.gpu)),
                            !.busy = Cardinality(Executing(s, w.gpu)),
                            !.result = IF s.n_images > s.image_count THEN "panic" ELSE "ok"]]

\* Drop for InnerSwapchain: wait_idle, then the loop over image_views that
\* releases images, views, semaphores and fences, then destroy_swapchain.
\* The loop indexes image_semaphores and fences, which have image_count
\* elements, with 0..image_views.len().
InnerSwapchain_drop(s, w) ==
    LET idle == InnerDevice_wait_idle(w)
    IN [w |-> idle,
        call |-> [SCall EXCEPT !.released = s.inst,
                               !.busy_before = Cardinality(Executing(s, w.gpu)),
                               !.busy = Cardinality(Executing(s, idle.gpu)),
                               !.result = IF s.n_images > s.image_count THEN "panic" ELSE "ok",
                               !.fault = IF s.n_images > s.image_count THEN "index" ELSE "none"]]

----------------------------------------------------------------------------
(* The swapchain specification: the caller's frame loop (acquire, submit   *)
(* with the fence of the AcquiredImage, present), resize, clones of the    *)
(* handle, and the GPU.                                                    *)

NoImage ==
    [inst |-> 0, image |-> 0, view |-> 0, image_semaphore |-> 0, present_semaphore |-> 0,
     fence |-> 0, curr_frame |-> 0]

SPanicked == slast.result = "panic"

\* the images the display engine can hand out
Available(s) == (0..(s.n_images - 1)) \ Held(s)

InitSwap ==
    /\ sc = NoSwapchain
    /\ kept = NoSwapchain
    /\ gpu = {}
    /\ frame = [pc |-> "ready", pending |-> FALSE, img |-> NoImage]
    /\ slast = SCall

create_swapchain ==
    /\ ~SPanicked /\ sc.inst = 0
    /\ \E d \in Descriptions :
          LET r == Device_create_swapchain(d.image_count, d.frames_in_flight, d.n_images)
          IN /\ sc' = r.s
             /\ slast' = [SCall EXCEPT !.op = "create_swapchain",
                                       !.result = IF r.ok THEN "ok" ELSE "panic",
                                       !.asked = [image_count |-> d.image_count,
                                                  frames_in_flight |-> d.frames_in_flight]]
    /\ UNCHANGED <<kept, gpu, frame>>
    /\ UNCHANGED <<devVars, extVars>>

Acquired(r, fence_at_call) ==
    /\ sc' = r.s
    /\ slast' = [r.call EXCEPT !.fence_at_call = fence_at_call]
    /\ frame' = IF r.ok THEN [pc |-> "ready", pending |-> TRUE, img |-> r.img]
                        ELSE [frame EXCEPT !.pc = "ready"]
    /\ UNCHANGED <<kept, gpu>>

\* Swapchain::acquire_image is called: it goes through when the slot's fence
\* is signaled, and waits in wait_for_fences when it is not
acquire_image ==
    /\ ~SPanicked /\ sc.inst # 0 /\ frame.pc = "ready"
    /\ sc.before + sc.count < MaxAcquires
    /\ IF wait_for_fences(sc, sc.frame_timeline)
       THEN \E index \in Available(sc), status \in EngineStatus :
               Acquired(InnerSwapchain_acquire_image(sc, index, status, FALSE),
                        sc.fences[sc.frame_timeline + 1])
       ELSE /\ frame' = [frame EXCEPT !.pc = "waiting"]
            /\ slast' = [SCall EXCEPT !.op = "acquire_image_wait", !.blocked = TRUE,
                                      !.slot = sc.frame_timeline,
                                      !.fence_at_call = sc.fences[sc.frame_timeline + 1]]
            /\ UNCHANGED <<sc, kept, gpu>>
    /\ UNCHANGED <<devVars, extVars>>

\* the fence has signaled: wait_for_fences returns and the call goes on
acquire_image_resume ==
    /\ ~SPanicked /\ frame.pc = "waiting"
    /\ wait_for_fences(sc, sc.frame_timeline)
    /\ \E index \in Available(sc), status \in EngineStatus :
          Acquired(InnerSwapchain_acquire_image(sc, index, status, TRUE), slast.fence_at_call)
    /\ UNCHANGED <<devVars, extVars>>

\* Device::submit with fence: Some(acquired_image.fence)
submit ==
    /\ ~SPanicked /\ frame.pc = "ready" /\ frame.pending
    /\ gpu' = gpu \cup {[inst |-> frame.img.inst, slot |-> frame.img.fence,
                         copy |-> 1 + Cardinality({e \in gpu : e.inst = frame.img.inst
                                                               /\ e.slot = frame.img.fence})]}
    /\ frame' = [frame EXCEPT !.pending = FALSE, !.img = NoImage]
    /\ slast' = [SCall EXCEPT !.op = "submit", !.slot = frame.img.fence]
    /\ UNCHANGED <<sc, kept>>
    /\ UNCHANGED <<devVars, extVars>>

\* the GPU finishes a submission and signals its fence
gpu_complete ==
    /\ \E e \in gpu :
          /\ gpu' = gpu \ {e}
          /\ sc' = Signal(sc, {e})
          /\ kept' = Signal(kept, {e})
    /\ UNCHANGED <<frame, slast>>
    /\ UNCHANGED <<devVars, extVars>>

present ==
    /\ ~SPanicked /\ sc.inst # 0 /\ frame.pc = "ready"
    /\ \E status \in EngineStatus :
          LET r == InnerSwapchain_present(sc, status)
          IN /\ sc' = r.s
             /\ slast' = r.call
    /\ UNCHANGED <<kept, gpu, frame>>
    /\ UNCHANGED <<devVars, extVars>>

\* #[derive(Clone)] on Swapchain: one more Arc to the InnerSwapchain
clone_swapchain ==
    /\ ~SPanicked /\ sc.inst # 0 /\ frame.pc = "ready"
    /\ sc.refs = 1 /\ kept.inst = 0
    /\ sc' = [sc EXCEPT !.refs = 2]
    /\ slast' = [SCall EXCEPT !.op = "clone"]
    /\ UNCHANGED <<kept, gpu, frame>>
    /\ UNCHANGED <<devVars, extVars>>

\* what Drop reads of an InnerSwapchain that only a clone still holds
Retained(s) ==
    [NoSwapchain EXCEPT !.inst = s.inst, !.image_count = s.image_count,
                        !.frames_in_flight = s.frames_in_flight, !.n_images = s.n_images,
                        !.fences = s.fences, !.refs = s.refs - 1]

\* Swapchain::recreate_swapchain (lines 29-39) on w: the new InnerSwapchain
\* takes the old description, then self.inner is replaced, which drops the
\* old InnerSwapchain unless a clone of the handle still holds it
Swapchain_recreate_swapchain(w, n_images) ==
    LET old == w.sc
        new == InnerSwapchain_new(old.inst + 1, old.image_count, old.frames_in_flight,
                                  n_images, old.before + old.count)
    IN IF ~DescAccepted(old.image_count, old.frames_in_flight)
       THEN [w |-> w, call |-> [SCall EXCEPT !.op = "recreate_swapchain", !.result = "panic"]]
       ELSE IF old.refs > 1
       THEN [w |-> [w EXCEPT !.sc = new, !.kept = Retained(old)],
             call |-> [SCall EXCEPT !.op = "recreate_swapchain"]]
       ELSE LET d == InnerSwapchain_drop(old, [w EXCEPT !.sc = new])
            IN [w |-> d.w, call |-> [d.call EXCEPT !.op = "recreate_swapchain"]]

Recreated(r) ==
    /\ sc' = r.w.sc
    /\ kept' = r.w.kept
    /\ gpu' = r.w.gpu
    /\ slast' = r.call
    /\ UNCHANGED frame

CanRecreate ==
    /\ ~SPanicked /\ sc.inst # 0 /\ frame.pc = "ready" /\ ~frame.pending
    /\ sc.inst <= MaxRecreates /\ kept.inst = 0

\* the caller recreates without waiting for the device
recreate_swapchain ==
    /\ CanRecreate
    /\ \E n \in sc.image_count..(sc.image_count + ExtraImages) :
          Recreated(Swapchain_recreate_swapchain(World, n))
    /\ UNCHANGED <<devVars, extVars>>

\* VulkanContext::resize: device.wait_idle(), then recreate_swapchain
resize ==
    /\ CanRecreate
    /\ \E n \in sc.image_count..(sc.image_count + ExtraImages) :
          Recreated(Swapchain_recreate_swapchain(InnerDevice_wait_idle(World), n))
    /\ UNCHANGED <<devVars, extVars>>

\* a clone of the handle goes away; the last Arc to an InnerSwapchain drops it
drop_clone ==
    /\ ~SPanicked /\ sc.inst # 0 /\ frame.pc = "ready"
    /\ IF kept.inst # 0
       THEN LET d == InnerSwapchain_drop(kept, World)
            IN /\ sc' = d.w.sc
               /\ gpu' = d.w.gpu
               /\ kept' = NoSwapchain
               /\ slast' = [d.call EXCEPT !.op = "drop_clone"]
       ELSE /\ sc.refs = 2
            /\ sc' = [sc EXCEPT !.refs = 1]
            /\ slast' = [SCall EXCEPT !.op = "drop_clone"]
            /\ UNCHANGED <<kept, gpu>>
    /\ UNCHANGED frame
    /\ UNCHANGED <<devVars, extVars>>

NextSwap ==
    \/ create_swapchain
    \/ acquire_image \/ acquire_image_resume \/ submit \/ gpu_complete \/ present
    \/ clone_swapchain \/ recreate_swapchain \/ resize \/ drop_clone

InitSwapIdle ==
    /\ sc = NoSwapchain
    /\ kept = NoSwapchain
    /\ gpu = {}
    /\ frame = [pc |-> "ready", pending |-> FALSE, img |-> NoImage]
    /\ slast = SCall

----------------------------------------------------------------------------
(* The extent of the images (InnerSwapchain::new, lines 94-103): the       *)
(* surface capabilities are what get_swapchain_support answers, width and  *)
(* height are those of the SwapchainDescription.                           *)

Extent2D(lo, hi) == [width : lo..hi, height : lo..hi]

NoExtent == [width |-> 0, height |-> 0]

\* current_extent when the surface does not fix the size
Undefined == [width |-> U32Max, height |-> U32Max]

\* VkSurfaceCapabilitiesKHR: min_image_extent <= max_image_extent, and the
\* current extent, when the surface fixes it, lies between them
Capabilities ==
    {c \in [current_extent : Extent2D(1, MaxExtent) \cup {Undefined},
            min_image_extent : Extent2D(1, MaxExtent),
            max_image_extent : Extent2D(1, MaxExtent)] :
        /\ c.min_image_extent.width <= c.max_image_extent.width
        /\ c.min_image_extent.height <= c.max_image_extent.height
        /\ c.current_extent # Undefined =>
              /\ c.min_image_extent.width <= c.current_extent.width
              /\ c.current_extent.width <= c.max_image_extent.width
              /\ c.min_image_extent.height <= c.current_extent.height
              /\ c.current_extent.height <= c.max_image_extent.height}

\* the sizes a caller asks for: below every minimum to above every maximum
Sizes == Extent2D(0, MaxExtent + 1)

\* u32::clamp(min, max), for min <= max
clamp(x, min, max) == IF x < min THEN min ELSE IF x > max THEN max ELSE x

\* Variant of lines 94-103 that takes the size as it was asked for.
extent_as_asked(width, height, caps) == [width |-> width, height |-> height]

\* lines 94-103
InnerSwapchain_extent(width, height, caps) ==
    IF caps.current_extent.width # U32Max
    THEN caps.current_extent
    ELSE [width |-> clamp(width, caps.min_image_extent.width, caps.max_image_extent.width),
          height |-> clamp(height, caps.min_image_extent.height, caps.max_image_extent.height)]

InitExtIdle ==
    ext = [caps |-> [current_extent |-> Undefined, min_image_extent |-> NoExtent,
                     max_image_extent |-> NoExtent],
           asked |-> NoExtent, desc |-> NoExtent, extent |-> NoExtent, made |-> FALSE]

\* a surface with its capabilities, and the size the caller is about to ask for
InitExt ==
    \E caps \in Capabilities, size \in Sizes :
        ext = [caps |-> caps, asked |-> size, desc |-> NoExtent, extent |-> NoExtent,
               made |-> FALSE]

\* Swapchain::recreate_swapchain(width, height): the description gets width
\* and height (lines 31-36), InnerSwapchain::new chooses the extent and
\* keeps the description (line 169)
recreate_swapchain_size ==
    /\ ~ext.made
    /\ ext' = [ext EXCEPT !.desc = ext.asked,
                          !.extent = InnerSwapchain_extent(ext.asked.width, ext.asked.height,
                                                           ext.caps),
                          !.made = TRUE]
    /\ UNCHANGED <<devVars, swapVars, up, thr, buf, sub, sel, fam>>

NextExtent == recreate_swapchain_size

----------------------------------------------------------------------------
(* Descriptor upload (Device::upload_descriptors, core/device.rs 136-151). *)
(* Descriptor writes are numbered 1, 2, ..; a write is pending until an    *)
(* upload pass has copied it to the table the shaders read. Each queue     *)
(* executes its submissions in order, the queues independently.            *)

Queues == {"transfer", "graphics"}

InitUp ==
    up = [pc |-> "ready", op |-> "init",
          writes |-> 0,       \* descriptor writes made
          called |-> 0,       \* writes made when the upload in progress was called
          settled |-> 0,      \* writes made before an upload_descriptors that returned
          visible |-> 0,      \* writes the GPU table holds
          submits |-> 0,
          queues |-> [q \in Queues |-> <<>>],
          stale |-> FALSE]    \* a command stream ran without a write it was submitted after

\* Variant of wait_idle that returns at once.
wait_idle_at_once(queues) == TRUE

\* backend/device.rs 663-667: vkDeviceWaitIdle returns when no queue has work
device_wait_idle(queues) == \A q \in Queues : queues[q] = <<>>

Larger(a, b) == IF a > b THEN a ELSE b

\* write_buffer / write_image / write_sampler: a write, pending until flushed
descriptor_write ==
    /\ up.pc = "ready" /\ up.writes < MaxWrites
    /\ up' = [up EXCEPT !.writes = @ + 1, !.op = "write"]
    /\ UNCHANGED <<devVars, swapVars, ext, thr, buf, sub, sel, fam>>

\* lines 137-148: a Transfer recorder records flush_descriptors, and the
\* command buffer is submitted without a fence
upload_descriptors ==
    /\ up.pc = "ready" /\ up.submits < MaxSubmits
    /\ up' = [up EXCEPT !.pc = "uploading", !.op = "upload_submit",
                        !.called = up.writes,
                        !.submits = @ + 1,
                        !.queues["transfer"] = Append(@, [kind |-> "upload", n |-> up.writes])]
    /\ UNCHANGED <<devVars, swapVars, ext, thr, buf, sub, sel, fam>>

\* line 150: wait_idle returns, and with it upload_descriptors
upload_descriptors_return ==
    /\ up.pc = "uploading"
    /\ device_wait_idle(up.queues)
    /\ up' = [up EXCEPT !.pc = "ready", !.op = "upload_return",
                        !.settled = Larger(@, up.called)]
    /\ UNCHANGED <<devVars, swapVars, ext, thr, buf, sub, sel, fam>>

\* Device::submit of a command stream that reads the table: it is to see the
\* writes made before every upload_descriptors that has returned
submit_commands ==
    /\ up.pc = "ready" /\ up.submits < MaxSubmits
    /\ up' = [up EXCEPT !.op = "submit", !.submits = @ + 1,
                        !.queues["graphics"] = Append(@, [kind |-> "draw", n |-> up.settled])]
    /\ UNCHANGED <<devVars, swapVars, ext, thr, buf, sub, sel, fam>>

\* a queue executes the submission at its head
gpu_execute ==
    /\ \E q \in Queues :
          /\ up.queues[q] # <<>>
          /\ LET e == Head(up.queues[q])
             IN up' = [up EXCEPT !.queues[q] = Tail(@),
                                 !.visible = IF e.kind = "upload" THEN Larger(@, e.n) ELSE @,
                                 !.stale = @ \/ (e.kind = "draw" /\ e.n > up.visible)]
    /\ UNCHANGED <<devVars, swapVars, ext, thr, buf, sub, sel, fam>>

NextUpload ==
    \/ descriptor_write \/ upload_descriptors \/ upload_descriptors_return
    \/ submit_commands \/ gpu_execute

----------------------------------------------------------------------------
(* Two threads on one Device (Device is Clone, its calls take &self, and   *)
(* InnerDevice is declared Send and Sync, backend/device.rs 698-699). The  *)
(* pool sits in an UnsafeCell and is changed through &mut without a lock   *)
(* (lines 361-373): a call that runs while another one is in the pool is a *)
(* data race. Its outcomes are modelled by splitting add and delete in two *)
(* steps: the call reads the pool's free stack and length, and later       *)
(* writes back what it computed from what it read.                         *)

Threads == {1, 2}

NoReg == [free_indices |-> <<>>, len |-> 0, id |-> 0, payload |-> NoPayload]

ThreadsIdle(mutex) ==
    [mutex |-> mutex,         \* the callers serialise their calls
     pool |-> ResourcePool_new,
     pc |-> [t \in Threads |-> "idle"],
     reg |-> [t \in Threads |-> NoReg],
     held |-> [t \in Threads |-> {}],     \* [id, payload] the thread was given and has not destroyed
     made |-> 0]

InitThrIdle == thr = ThreadsIdle(TRUE)

InitThr == \E mutex \in BOOLEAN : thr = ThreadsIdle(mutex)

\* Variant of the callers' discipline in which a call is made at any time.
MayEnter_any(t) == TRUE

\* external mutual exclusion: with it, a thread makes a call only when no
\* other thread is inside one
MayEnter(t) ==
    thr.mutex => \A other \in Threads \ {t} : thr.pc[other] \in {"idle", "panicked"}

\* what the call read when it began
Snapshot(pool, id, payload) ==
    [free_indices |-> pool.free_indices, len |-> pool.len, id |-> id, payload |-> payload]

\* add, computed from the free stack and the length the call read, on the
\* slots as they are now; it writes back the one of the two it changes
RacyAdd(pool, reg) ==
    IF reg.free_indices # <<>>
    THEN add([pool EXCEPT !.free_indices = reg.free_indices], reg.payload)
    ELSE LET r == add([pool EXCEPT !.free_indices = <<>>, !.len = reg.len], reg.payload)
         IN [id |-> r.id, pool |-> [r.pool EXCEPT !.free_indices = pool.free_indices]]

\* delete, pushing the index on the free stack the call read
RacyDelete(pool, reg) ==
    delete([pool EXCEPT !.free_indices = reg.free_indices], reg.id)

\* create_buffer up to the point where add has read the pool (lines 330-361)
thread_create_begin(t) ==
    /\ thr.pc[t] = "idle" /\ MayEnter(t)
    /\ thr.made < MaxThreadCreates
    /\ thr' = [thr EXCEPT !.pc[t] = "adding",
                          !.made = @ + 1,
                          !.reg[t] = Snapshot(thr.pool, 0, NativeSlot(thr.made + 1))]

\* add writes the slot, the stack or the length; create_buffer returns the id
thread_create_finish(t) ==
    /\ thr.pc[t] = "adding"
    /\ LET r == RacyAdd(thr.pool, thr.reg[t])
       IN thr' = [thr EXCEPT !.pc[t] = "idle",
                             !.pool = r.pool,
                             !.reg[t] = NoReg,
                             !.held[t] = @ \cup {[id |-> r.id, payload |-> thr.reg[t].payload]}]

\* destroy_buffer of a resource the thread holds, up to delete's read (line 373)
thread_destroy_begin(t) ==
    /\ thr.pc[t] = "idle" /\ MayEnter(t)
    /\ \E h \in thr.held[t] :
          thr' = [thr EXCEPT !.pc[t] = "deleting",
                             !.reg[t] = Snapshot(thr.pool, h.id, h.payload)]

\* delete empties the slot and pushes the index; fatal on an empty slot
thread_destroy_finish(t) ==
    /\ thr.pc[t] = "deleting"
    /\ LET r == RacyDelete(thr.pool, thr.reg[t])
           h == [id |-> thr.reg[t].id, payload |-> thr.reg[t].payload]
       IN thr' = [thr EXCEPT !.pc[t] = IF r.ok THEN "idle" ELSE "panicked",
                             !.pool = r.pool,
                             !.reg[t] = NoReg,
                             !.held[t] = @ \ {h}]

thread_create_buffer ==
    /\ \E t \in Threads : thread_create_begin(t) \/ thread_create_finish(t)
    /\ UNCHANGED <<devVars, swapVars, ext, up, buf, sub, sel, fam>>

thread_destroy_buffer ==
    /\ \E t \in Threads : thread_destroy_begin(t) \/ thread_destroy_finish(t)
    /\ UNCHANGED <<devVars, swapVars, ext, up, buf, sub, sel, fam>>

NextThreads == thread_create_buffer \/ thread_destroy_buffer

----------------------------------------------------------------------------
(* write_data_to_buffer (backend/device.rs 381-388) on one buffer. The     *)
(* buffer has size elements of memory (create_buffer, line 339); behind    *)
(* them lies memory that is not the buffer's. mem and behind hold, per     *)
(* element, the number of the call that wrote it last (0: never written).  *)

ABuffer(size, mapped) ==
    [size |-> size, mapped |-> mapped,
     mem |-> [i \in 1..size |-> 0],
     behind |-> [i \in 1..(MaxBufferSize + 1) |-> 0],
     calls |-> 0, op |-> "init", result |-> "ok", len |-> 0]

InitBufIdle == buf = ABuffer(1, FALSE)

InitBuf == \E size \in 1..MaxBufferSize, mapped \in BOOLEAN : buf = ABuffer(size, mapped)

\* line 386: copy_nonoverlapping(data.as_ptr(), ptr, data.len()): len
\* elements from the mapped pointer on, whatever the size of the buffer
copy_nonoverlapping(b, len, call) ==
    [b EXCEPT !.mem = [i \in 1..b.size |-> IF i <= len THEN call ELSE @[i]],
              !.behind = [i \in DOMAIN @ |-> IF b.size + i <= len THEN call ELSE @[i]]]

\* lines 381-388: get_ref, mapped_ptr().expect(..), copy_nonoverlapping.
\* A copy past the end of the allocation is undefined behaviour: the
\* memory behind it is overwritten, or the process is stopped (crash).
InnerDevice_write_data_to_buffer(b, len, crash) ==
    LET called == [b EXCEPT !.calls = @ + 1, !.op = "write_data_to_buffer", !.len = len]
    IN IF ~b.mapped
       THEN [called EXCEPT !.result = "panic"]
       ELSE IF len > b.size /\ crash
       THEN [called EXCEPT !.result = "crash"]
       ELSE [copy_nonoverlapping(called, len, called.calls) EXCEPT !.result = "ok"]

write_data_to_buffer ==
    /\ buf.result = "ok" /\ buf.calls < MaxBufferWrites
    /\ \E len \in 0..(MaxBufferSize + 1), crash \in BOOLEAN :
          buf' = InnerDevice_write_data_to_buffer(buf, len, crash)
    /\ UNCHANGED <<devVars, swapVars, ext, up, thr, sub, sel, fam>>

NextBufferWrite == write_data_to_buffer

----------------------------------------------------------------------------
(* InnerDevice::submit (backend/device.rs 615-661).                        *)

\* definations/commands.rs 8-14
QueueType == {"Graphics", "Transfer", "Compute", "None"}

\* the queues of the device: graphics_queue, compute_queue, transfer_queue
DeviceQueues == {"Graphics", "Compute", "Transfer"}

\* the command-buffer lists of a QueueSubmitInfo, by the queue types of the buffers
Batches == UNION {[1..n -> QueueType] : n \in 0..MaxBatch}

\* fence: Option<Fence>: 0 is None (vk::Fence::null()), 1 a fence
Fences == {0, 1}

InitSub ==
    sub = [queues |-> [q \in DeviceQueues |-> <<>>],
           calls |-> 0, cmds |-> <<>>, fence |-> 0, result |-> "ok"]

\* Variant of submit that takes the queue of the first command buffer for
\* granted (without the assert in the loop).
submit_unchecked(u, cmds, fence) ==
    LET called == [u EXCEPT !.calls = @ + 1, !.cmds = cmds, !.fence = fence]
    IN IF cmds = <<>> \/ cmds[1] = "None"
       THEN [called EXCEPT !.result = "panic"]
       ELSE [called EXCEPT !.result = "ok",
                           !.queues[cmds[1]] = Append(@, [cmds |-> cmds, fence |-> fence])]

\* lines 615-661: command_buffers[0].queue_type (an empty list is an index
\* out of range), assert!(cb.queue_type == cmd_type) for every buffer, the
\* match on the queue (None panics), then one queue_submit2 with the fence
InnerDevice_submit(u, cmds, fence) ==
    LET called == [u EXCEPT !.calls = @ + 1, !.cmds = cmds, !.fence = fence]
    IN IF cmds = <<>>
       THEN [called EXCEPT !.result = "panic"]
       ELSE IF \E i \in DOMAIN cmds : cmds[i] # cmds[1]
       THEN [called EXCEPT !.result = "panic"]
       ELSE IF cmds[1] \notin DeviceQueues
       THEN [called EXCEPT !.result = "panic"]
       ELSE [called EXCEPT !.result = "ok",
                           !.queues[cmds[1]] = Append(@, [cmds |-> cmds, fence |-> fence])]

device_submit ==
    /\ sub.result = "ok" /\ sub.calls < MaxDeviceSubmits
    /\ \E cmds \in Batches, fence \in Fences : sub' = InnerDevice_submit(sub, cmds, fence)
    /\ UNCHANGED <<devVars, swapVars, ext, up, thr, buf, sel, fam>>

NextSubmit == device_submit

----------------------------------------------------------------------------
(* select_physical_device (backend/device.rs 286-325).                     *)

DeviceTypes == {"discrete", "integrated", "other"}

\* limits.max_image_dimension2_d: values devices report
Dimensions == {4096, 8192, 16384}

\* a physical device: its type, its largest 2D image dimension, whether
\* get_queue_families gave Some(..), and whether it has the required extensions
PhysicalDevices ==
    [type : DeviceTypes, dim : Dimensions, families : BOOLEAN, extensions : BOOLEAN]

DeviceLists == UNION {[1..n -> PhysicalDevices] : n \in 0..MaxDevices}

\* lines 302-310
score(dev) ==
    (IF dev.type = "discrete" THEN DiscreteScore
     ELSE IF dev.type = "integrated" THEN IntegratedScore
     ELSE OtherScore) + dev.dim

\* lines 297-300: a device is considered when its queue families are
\* complete and it has the required extensions
Eligible(dev) == dev.families /\ dev.extensions

\* the loop of lines 291-321 from device i on; best is the place of the best
\* device so far (0: none)
RECURSIVE select_from(_, _, _)
select_from(devices, i, best) ==
    IF i > Len(devices) THEN best
    ELSE IF Eligible(devices[i]) /\ (best = 0 \/ score(devices[i]) > score(devices[best]))
    THEN select_from(devices, i + 1, i)
    ELSE select_from(devices, i + 1, best)

\* the place of the device returned; 0 is None
InnerDevice_select_physical_device(devices) == select_from(devices, 1, 0)

InitSelIdle == sel = [devices |-> <<>>, done |-> FALSE, selected |-> 0]

InitSel == \E devices \in DeviceLists : sel = [devices |-> devices, done |-> FALSE, selected |-> 0]

select_physical_device ==
    /\ ~sel.done
    /\ sel' = [sel EXCEPT !.done = TRUE,
                          !.selected = InnerDevice_select_physical_device(sel.devices)]
    /\ UNCHANGED <<devVars, swapVars, ext, up, thr, buf, sub, fam>>

NextSelect == select_physical_device

----------------------------------------------------------------------------
(* get_queue_families (backend/device.rs 235-270).                         *)

QueueFlags == {"GRAPHICS", "COMPUTE", "TRANSFER"}

\* get_physical_device_queue_family_properties: the queue_flags of each family
FamilyLists == UNION {[1..n -> SUBSET QueueFlags] : n \in 0..MaxFamilies}

\* an Option<u32> is the empty set (None) or the set of its one value
is_some(option) == option # {}

\* lines 238-242
NoIndices == [graphics_family |-> {}, transfer_family |-> {}, compute_family |-> {}]

\* lines 16-20
is_complete(indices) ==
    /\ is_some(indices.graphics_family)
    /\ is_some(indices.compute_family)
    /\ is_some(indices.transfer_family)

\* lines 245-258: the three tests on the family with index i (counted from 0)
visit_family(indices, i, flags) ==
    [graphics_family |->
        IF "GRAPHICS" \in flags /\ ~is_some(indices.graphics_family)
        THEN {i} ELSE indices.graphics_family,
     compute_family |->
        IF "COMPUTE" \in flags /\ "GRAPHICS" \notin flags /\ ~is_some(indices.compute_family)
        THEN {i} ELSE indices.compute_family,
     transfer_family |->
        IF /\ "TRANSFER" \in flags /\ "GRAPHICS" \notin flags /\ "COMPUTE" \notin flags
           /\ ~is_some(indices.transfer_family)
        THEN {i} ELSE indices.transfer_family]

\* the loop of lines 244-263 from the family with index i on, with its break
RECURSIVE families_from(_, _, _)
families_from(families, i, indices) ==
    IF i >= Len(families) THEN indices
    ELSE LET found == visit_family(indices, i, families[i + 1])
         IN  IF is_complete(found) THEN found
             ELSE families_from(families, i + 1, found)

\* lines 265-269: Some(indices) when complete, None otherwise
InnerDevice_get_queue_families(families) ==
    LET indices == families_from(families, 0, NoIndices)
    IN  IF is_complete(indices) THEN [some |-> TRUE, indices |-> indices]
        ELSE [some |-> FALSE, indices |-> NoIndices]

InitFamIdle ==
    fam = [families |-> <<>>, done |-> FALSE, result |-> [some |-> FALSE, indices |-> NoIndices]]

InitFam ==
    \E families \in FamilyLists :
        fam = [families |-> families, done |-> FALSE,
               result |-> [some |-> FALSE, indices |-> NoIndices]]

get_queue_families ==
    /\ ~fam.done
    /\ fam' = [fam EXCEPT !.done = TRUE,
                          !.result = InnerDevice_get_queue_families(fam.families)]
    /\ UNCHANGED <<devVars, swapVars, ext, up, thr, buf, sub, sel>>

NextFamilies == get_queue_families

Init == InitDev /\ InitSwapIdle /\ InitExtIdle /\ InitUp /\ InitThrIdle /\ InitBufIdle /\ InitSub /\ InitSelIdle /\ InitFamIdle

Next == NextDev

Spec == Init /\ [][Next]_vars

InitS == InitDev /\ InitSwap /\ InitExtIdle /\ InitUp /\ InitThrIdle /\ InitBufIdle /\ InitSub /\ InitSelIdle /\ InitFamIdle

SpecSwap == InitS /\ [][NextSwap]_vars

\* Renderer::render (fractal/src/renderer.rs 85-168): acquire_image, then
\* submit with fence: Some(acquired_image.fence), then present, and so on;
\* the display engine answers with success.
loop_acquire_image ==
    /\ ~frame.pending /\ sc.curr_img_indeices = <<>>
    /\ acquire_image
    /\ slast'.status = "success"

loop_acquire_image_resume ==
    /\ acquire_image_resume
    /\ slast'.status = "success"

loop_present ==
    /\ ~frame.pending /\ sc.curr_img_indeices # <<>>
    /\ present
    /\ slast'.status = "success"

NextFrameLoop ==
    \/ create_swapchain
    \/ loop_acquire_image \/ loop_acquire_image_resume
    \/ submit \/ loop_present
    \/ gpu_complete

\* the GPU completes every submission; a wait whose fence is signaled
\* returns and the engine hands out an image; the loop goes on to submit
ProgressFrameLoop ==
    /\ WF_vars(gpu_complete)
    /\ WF_vars(loop_acquire_image_resume)
    /\ WF_vars(submit)

SpecFrameLoop == InitS /\ [][NextFrameLoop]_vars /\ ProgressFrameLoop

InitE == InitDev /\ InitSwapIdle /\ InitExt /\ InitUp /\ InitThrIdle /\ InitBufIdle /\ InitSub /\ InitSelIdle /\ InitFamIdle

SpecExtent == InitE /\ [][NextExtent]_vars

InitU == InitDev /\ InitSwapIdle /\ InitExtIdle /\ InitUp /\ InitThrIdle /\ InitBufIdle /\ InitSub /\ InitSelIdle /\ InitFamIdle

SpecUpload == InitU /\ [][NextUpload]_vars

InitT == InitDev /\ InitSwapIdle /\ InitExtIdle /\ InitUp /\ InitThr /\ InitBufIdle /\ InitSub /\ InitSelIdle /\ InitFamIdle

SpecThreads == InitT /\ [][NextThreads]_vars

InitB == InitDev /\ InitSwapIdle /\ InitExtIdle /\ InitUp /\ InitThrIdle /\ InitBuf /\ InitSub /\ InitSelIdle /\ InitFamIdle

SpecBufferWrite == InitB /\ [][NextBufferWrite]_vars

InitQ ==
    /\ InitDev /\ InitSwapIdle /\ InitExtIdle /\ InitUp /\ InitThrIdle /\ InitBufIdle
    /\ InitSub /\ InitSelIdle /\ InitFamIdle

SpecSubmit == InitQ /\ [][NextSubmit]_vars

InitP ==
    /\ InitDev /\ InitSwapIdle /\ InitExtIdle /\ InitUp /\ InitThrIdle /\ InitBufIdle
    /\ InitSub /\ InitSel /\ InitFamIdle

SpecSelect == InitP /\ [][NextSelect]_vars

InitF ==
    /\ InitDev /\ InitSwapIdle /\ InitExtIdle /\ InitUp /\ InitThrIdle /\ InitBufIdle
    /\ InitSub /\ InitSelIdle /\ InitFam

SpecFamilies == InitF /\ [][NextFamilies]_vars

----------------------------------------------------------------------------
(* Properties of the swapchain.                                            *)

\* C2: with every AcquiredImage's fence passed to the submit of its frame,
\* acquire_image returns frame slot f only when nothing submitted with slot
\* f's fence is still executing, and no more than frames_in_flight such
\* submissions are ever outstanding.
FramesInFlightBounded ==
    /\ (slast.op = "acquire_image" /\ slast.result = "ok") =>
          {e \in Executing(sc, gpu) : e.slot = slast.slot} = {}
    /\ Cardinality(Executing(sc, gpu)) <= sc.frames_in_flight
    /\ Cardinality(Executing(kept, gpu)) <= kept.frames_in_flight
    /\ kept.inst = 0 => Cardinality(gpu) <= sc.frames_in_flight

\* C2 happens: a slot comes round again, the call waits for its fence and
\* returns while the other slots are still executing.
SlotReusedAfterWait ==
    /\ slast.op = "acquire_image" /\ slast.result = "ok" /\ slast.blocked
    /\ sc.frames_in_flight >= 2 /\ sc.count > sc.frames_in_flight
    /\ Cardinality(Executing(sc, gpu)) = sc.frames_in_flight - 1

\* C6: acquire_image asks the display engine for an image only after it saw
\* the slot's fence signaled and after it reset the fence; it blocks only
\* when the fence is unsignaled; when it returns the fence is unsignaled.
AcquireWaitsThenResets ==
    /\ (slast.op = "acquire_image" /\ slast.requested) =>
          /\ slast.seen_signaled
          /\ ~slast.fence_at_request
          /\ slast.blocked => ~slast.fence_at_call
          /\ ~slast.blocked => slast.fence_at_call
          /\ slast.result = "ok" => ~sc.fences[slast.slot + 1]
    /\ slast.op = "acquire_image_wait" => ~slast.fence_at_call

\* C6 happens: a call found the fence unsignaled, waited, and returned.
AcquireReturnedAfterWait ==
    /\ slast.op = "acquire_image" /\ slast.result = "ok"
    /\ slast.blocked /\ ~slast.fence_at_call /\ slast.seen_signaled
    /\ ~sc.fences[slast.slot + 1]

\* C7: counting from 0, the k-th acquire_image that returns on a swapchain
\* gives curr_frame = k mod frames_in_flight with the fence and the acquire
\* semaphore of that slot, whatever image the engine hands back and
\* whatever was presented in between.
FrameSlotRoundRobin ==
    (slast.op = "acquire_image" /\ slast.result = "ok") =>
        /\ frame.img.curr_frame = (sc.count - 1) % sc.frames_in_flight
        /\ frame.img.fence = frame.img.curr_frame
        /\ frame.img.image_semaphore = frame.img.curr_frame
        /\ slast.slot = frame.img.curr_frame

\* C7 happens: frames_in_flight = 2, image_count = 3, the fifth call returns
\* slot 0 with an image other than the first in hand.
FifthAcquire ==
    /\ slast.op = "acquire_image" /\ slast.result = "ok"
    /\ sc.image_count = 3 /\ sc.frames_in_flight = 2
    /\ sc.count = 5 /\ frame.img.curr_frame = 0
    /\ frame.img.image # 0

\* C8: the objects of an old InnerSwapchain are destroyed only when no
\* submission that can use them is executing any more, whether the caller
\* waited for the device or not, and also when a clone of the handle kept
\* the old InnerSwapchain alive.
ReleasedWhenIdle ==
    slast.released # 0 => slast.busy = 0

\* C8 happens: the clone that kept the old InnerSwapchain goes away while
\* work submitted with the old fences is executing.
ReleasedByCloneWhileBusy ==
    /\ slast.op = "drop_clone" /\ slast.released # 0
    /\ slast.busy_before > 0

\* C10: out-of-date and suboptimal, reported by the display engine in
\* acquire_image or present, come back to the caller as an error value: no
\* abort, and not dropped.
StalenessIsReturned ==
    (/\ slast.op \in {"acquire_image", "present"} /\ slast.requested
     /\ slast.status \in {"out_of_date", "suboptimal"}) =>
        slast.result = "error"

\* a step that is a call of present, of acquire_image (the GPU leaves slast alone)
PresentStep == slast'.op = "present" /\ gpu' = gpu /\ <<sc, slast>>' # <<sc, slast>>

AcquireStep == slast'.op = "acquire_image" /\ gpu' = gpu /\ <<sc, slast>>' # <<sc, slast>>

\* C11: present with no image pending (none acquired yet, or all presented)
\* asks the display engine for nothing, raises no error and leaves the
\* pending queue, both rotation counters and every sync object as they were.
PresentOnEmptyIsNoOp ==
    [][(PresentStep /\ sc.curr_img_indeices = <<>>) =>
          /\ slast'.result = "ok" /\ ~slast'.requested
          /\ sc' = sc /\ kept' = kept /\ gpu' = gpu]_vars

\* C11 happens: images were acquired, all were presented, present is called again.
PresentedOnEmpty ==
    /\ slast.op = "present" /\ ~slast.requested /\ slast.result = "ok"
    /\ sc.count > 0 /\ sc.curr_img_indeices = <<>>

\* C12: acquire_image pushes the engine's image index at the back of the
\* pending queue; present takes the index pushed last and not yet
\* presented, makes one present request for it that waits on the
\* present-ready semaphore of that index, and leaves the older ones queued
\* in their order.
PresentTakesLatest ==
    [][/\ (AcquireStep /\ slast'.result = "ok") =>
             sc'.curr_img_indeices = Append(sc.curr_img_indeices, slast'.index)
       /\ (PresentStep /\ sc.curr_img_indeices # <<>>) =>
             LET q == sc.curr_img_indeices
             IN /\ slast'.requested
                /\ slast'.index = q[Len(q)]
                /\ slast'.sem = q[Len(q)]
                /\ sc'.curr_img_indeices = SubSeq(q, 1, Len(q) - 1)]_vars

\* C12 happens: an image is presented while older ones stay pending.
PresentedWithOlderPending ==
    /\ slast.op = "present" /\ slast.requested /\ slast.result = "ok"
    /\ Len(sc.curr_img_indeices) >= 1

\* the pending queue holds no more than image_count indices, none twice
QueueWithinImageCount(s) ==
    /\ Len(s.curr_img_indeices) <= s.image_count
    /\ \A i, j \in 1..Len(s.curr_img_indeices) :
          s.curr_img_indeices[i] = s.curr_img_indeices[j] => i = j

\* C13: whatever the interleaving of acquire_image and present, the pending
\* queue never holds more than image_count indices and none twice.
PendingQueueBounded == QueueWithinImageCount(sc)

\* What holds of C13: the bound, as long as every call has returned.
PendingQueueBoundedWhileRunning == ~SPanicked => QueueWithinImageCount(sc)

\* C14: a swapchain holds one present-ready semaphore per image the display
\* engine created, and one acquire semaphore and one fence per
\* frame-in-flight slot.
SyncObjectsPerImageAndSlot ==
    sc.inst # 0 =>
        /\ sc.preset_semaphores = sc.n_images
        /\ sc.image_semaphores = sc.frames_in_flight
        /\ Len(sc.fences) = sc.frames_in_flight

\* C15: the AcquiredImage holds the image, the view and the present-ready
\* semaphore of the index the display engine returned, and the acquire
\* semaphore and the fence of the frame slot of the call.
AcquiredImageBelongsTogether ==
    (slast.op = "acquire_image" /\ slast.result = "ok") =>
        /\ frame.img.image = slast.index
        /\ frame.img.view = slast.index
        /\ frame.img.present_semaphore = slast.index
        /\ frame.img.image_semaphore = slast.slot
        /\ frame.img.fence = slast.slot
        /\ frame.img.curr_frame = slast.slot

\* C15 happens: the engine's index differs from the frame slot and from the
\* image rotation counter the call started with.
AcquiredOffCounters ==
    /\ slast.op = "acquire_image" /\ slast.result = "ok"
    /\ frame.img.image = slast.index
    /\ slast.index # slast.slot
    /\ slast.index # (sc.image_timeline + sc.image_count - 1) % sc.image_count

\* every swapchain there is has frames_in_flight <= image_count, and
\* create_swapchain gave what was asked for or refused it with nothing created
AcceptedDescriptionsOnly ==
    /\ sc.inst # 0 => sc.frames_in_flight <= sc.image_count
    /\ kept.inst # 0 => kept.frames_in_flight <= kept.image_count
    /\ slast.op = "create_swapchain" =>
          (IF slast.asked.frames_in_flight > slast.asked.image_count
           THEN slast.result = "panic" /\ sc = NoSwapchain
           ELSE /\ slast.result = "ok"
                /\ sc.image_count = slast.asked.image_count
                /\ sc.frames_in_flight = slast.asked.frames_in_flight)

NoIndexOrDivisionFault == slast.fault = "none"

\* C26: in the frame loop (every acquire_image followed by a submit with
\* the fence it returned), with a GPU that completes every submission and
\* an engine that hands out an image, every acquire_image call returns: none
\* ends in a panic, and one that waits on the fence of its slot goes on.
EveryAcquireReturns ==
    /\ [](slast.op = "acquire_image" => slast.result = "ok")
    /\ (frame.pc = "waiting") ~> (frame.pc = "ready")

\* the loop never blocks forever on the fence of a slot
WaitOnFenceEnds == (frame.pc = "waiting") ~> (frame.pc = "ready")

----------------------------------------------------------------------------
(* Properties of the extent.                                               *)

\* the size asked for, each side brought into the surface's minimum..maximum
Clamped(size, caps) ==
    [width |-> clamp(size.width, caps.min_image_extent.width, caps.max_image_extent.width),
     height |-> clamp(size.height, caps.min_image_extent.height, caps.max_image_extent.height)]

\* C17: after recreate_swapchain(width, height) the extent of the swapchain
\* and of its images is width and height clamped to the surface's minimum
\* and maximum extent, for every size asked for and every capability set.
ExtentIsClamped ==
    ext.made => ext.extent = Clamped(ext.asked, ext.caps)

\* C17 as the code has it: the extent of the images is the surface's current
\* extent when the surface fixes one, and the size asked for clamped to the
\* minimum and maximum otherwise; the description kept by the swapchain
\* holds the size as it was asked for.
ExtentIsCurrentOrClamped ==
    ext.made =>
        /\ ext.extent = IF ext.caps.current_extent.width # U32Max
                        THEN ext.caps.current_extent
                        ELSE Clamped(ext.asked, ext.caps)
        /\ ext.desc = ext.asked

\* C17 happens: the surface fixes no size, the width asked for is above the
\* maximum and the height below the minimum.
ExtentWasClamped ==
    /\ ext.made /\ ext.caps.current_extent = Undefined
    /\ ext.asked.width > ext.caps.max_image_extent.width
    /\ ext.asked.height < ext.caps.min_image_extent.height
    /\ ext.extent = [width |-> ext.caps.max_image_extent.width,
                     height |-> ext.caps.min_image_extent.height]

----------------------------------------------------------------------------
(* Further properties of the device.                                       *)

\* C18: destroy_buffer and destroy_image take their three steps in this
\* order: the slot of the pool is freed (the id is no longer live), then the
\* allocation is released, then the native object is destroyed. A call that
\* fails in the first step takes none of the later ones (and changes
\* nothing); one that fails releasing the allocation has freed the slot and
\* has not destroyed the native object.
DestroyInOrder ==
    last.op \in {"destroy_buffer", "destroy_image"} =>
        /\ last.result = "ok" =>
              /\ last.steps = <<"delete", "free", "destroy">>
              /\ last.occupied /\ ~IsLive(pools[last.kind], last.id)
        /\ (last.result = "panic" /\ ~last.occupied) =>
              last.steps = <<>> /\ ~last.changed
        /\ (last.result = "panic" /\ last.occupied) =>
              /\ last.steps = <<"delete">>
              /\ ~IsLive(pools[last.kind], last.id)

\* C18 happens: an image was destroyed, all three steps taken.
DestroyedInOrder ==
    /\ last.op = "destroy_image" /\ last.result = "ok" /\ last.fresh
    /\ last.steps = <<"delete", "free", "destroy">>
\* what a pool holds: the live ids, each with its payload
LiveContent(pool) == [id \in LiveIds(pool) |-> SlotAt(pool, id).val]

\* payloads to give a pool: of a native object that no pool holds yet
Payloads ==
    {BufferSlot(MaxCreates + 1, mapped) : mapped \in BOOLEAN}
    \cup {NativeSlot(MaxCreates + 1)}

\* C19: delete(add(x)) returns x: deleting the id that add has just returned
\* gives back the payload that was added, and the pool then holds the same
\* live ids with the same payloads as before the add. It holds of every
\* pool the device can get into, and of create_buffer / create_image
\* followed by the destroy of the id they returned.
DeleteOfAddReturnsPayload ==
    /\ \A k \in Kinds, x \in Payloads :
          LET a == add(pools[k], x)
              r == delete(a.pool, a.id)
          IN /\ r.ok /\ r.val = x
             /\ LiveContent(r.pool) = LiveContent(pools[k])
    /\ \A mapped \in BOOLEAN :
          LET c == InnerDevice_create_buffer(Dev, mapped, "none")
              r == InnerDevice_destroy_buffer(c.d, c.id, "none")
          IN /\ c.ok /\ r.ok /\ r.handle = c.handle
             /\ LiveContent(r.d.pools["buffer"]) = LiveContent(pools["buffer"])
    /\ LET c == InnerDevice_create_image(Dev, "none")
           r == InnerDevice_destroy_image(c.d, c.id, "none")
       IN /\ c.ok /\ r.ok /\ r.handle = c.handle
          /\ LiveContent(r.d.pools["image"]) = LiveContent(pools["image"])

\* C19 happens: the image created last was destroyed at once, another image
\* is live and a freed index had been reused by the create.
DeletedWhatWasJustAdded ==
    /\ last.op = "destroy_image" /\ last.result = "ok" /\ last.fresh
    /\ last.intent = Len(issued["image"]) /\ last.value = last.intent
    /\ \E s \in 1..(last.intent - 1) : issued["image"][s].live
    /\ \E s \in 1..(last.intent - 1) : issued["image"][s].id = last.id
\* the notes of the resources that were given index id
NotesOf(k, id) == {s \in 1..Len(issued[k]) : issued[k][s].id = id}

\* the indices that were freed and not reused since
Freed(k) ==
    {id \in {issued[k][s].id : s \in 1..Len(issued[k])} :
        \A s \in NotesOf(k, id) : ~issued[k][s].live}

\* when index id was freed last (the how-manieth delete of the pool it was)
FreedAt(k, id) ==
    CHOOSE n \in {issued[k][s].freed : s \in NotesOf(k, id)} :
        \A s \in NotesOf(k, id) : issued[k][s].freed <= n

MostRecentlyFreed(k) ==
    CHOOSE id \in Freed(k) : \A other \in Freed(k) : FreedAt(k, other) <= FreedAt(k, id)

\* a step in which the pool of kind k was added to
Added(k) == Len(issued'[k]) = Len(issued[k]) + 1

\* C20: when an index was freed and not reused yet, add returns the one
\* freed most recently and the pool does not grow; the pool grows, by one
\* page, only when no freed index is there (and every slot of its pages is
\* taken); the ids live at that moment keep their payloads.
AddReusesLastFreed ==
    [][\A k \in Kinds : Added(k) =>
          LET new == issued'[k][Len(issued'[k])]
              pages == Len(pools[k].data)
          IN /\ Freed(k) # {} =>
                   /\ new.id = MostRecentlyFreed(k)
                   /\ Len(pools'[k].data) = pages
             /\ Freed(k) = {} =>
                   /\ new.id = Cardinality(LiveIds(pools[k]))
                   /\ Len(pools'[k].data) =
                         IF Cardinality(LiveIds(pools[k])) = pages * PageSize
                         THEN pages + 1 ELSE pages
             /\ \A id \in LiveIds(pools[k]) :
                   get_ref(pools'[k], id) = get_ref(pools[k], id)
             /\ get_ref(pools'[k], new.id) = [ok |-> TRUE, val |-> new.payload]]_vars

\* C20 happens: of two buffers the second was destroyed last, and a third
\* buffer got its index.
ReusedLastFreed ==
    /\ last.op = "create_buffer" /\ last.result = "ok"
    /\ Len(issued["buffer"]) = 3
    /\ issued["buffer"][1].freed > 0
    /\ issued["buffer"][2].freed > issued["buffer"][1].freed
    /\ issued["buffer"][3].id = issued["buffer"][2].id
    /\ issued["buffer"][3].live
WriteOps == {"write_buffer", "write_image", "write_sampler"}

\* C21: a descriptor write with an index at or beyond the capacity of its
\* category fails fatally and changes no slot of the table (also the write
\* that create_texture makes); a write with an index below the capacity
\* fails only when the id it is given has no payload, and otherwise puts
\* its value into the slot of that index.
WriteBeyondCapacityIsFatal ==
    [][(last'.op \in WriteOps \cup {"create_texture"} /\ last' # last) =>
          /\ last'.index >= DescCapacity =>
                last'.result = "panic" /\ bindless' = bindless
          /\ (last'.index < DescCapacity /\ last'.op \in WriteOps) =>
                /\ last'.result = "ok" <=> last'.occupied
                /\ last'.result = "ok" => bindless'[last'.cat][last'.index] = last'.out
          /\ (last'.index < DescCapacity /\ last'.op = "create_texture") =>
                last'.result = "ok" <=> last'.fault = "none"]_vars

\* C21 happens: the address of a live buffer was written at the index of
\* the capacity.
WroteBeyondCapacity ==
    /\ last.op = "write_buffer" /\ last.occupied /\ last.fresh
    /\ last.index = DescCapacity /\ last.result = "panic"
\* a write made a second time leaves what the first one left
SameAgain(first, again) ==
    first.ok => (again.ok /\ again.d = first.d /\ again.out = first.out)

\* C22: descriptor writes are idempotent: in every state, for every id,
\* category and index, writing the same value at the same index twice in a
\* row leaves the table (and the rest of the device) as writing it once
\* does, so every slot reads the same afterwards.
WritesAreIdempotent ==
    /\ \A h \in CallerHandles("buffer"), index \in WriteIndices :
          LET first == InnerDevice_write_buffer(Dev, h.id, index)
          IN SameAgain(first, InnerDevice_write_buffer(first.d, h.id, index))
    /\ \A h \in CallerHandles("view"), cat \in {"sampled", "storage"}, index \in WriteIndices :
          LET first == InnerDevice_write_image(Dev, h.id, cat, index)
          IN SameAgain(first, InnerDevice_write_image(first.d, h.id, cat, index))
    /\ \A h \in CallerHandles("sampler"), index \in WriteIndices :
          LET first == InnerDevice_write_sampler(Dev, h.id, index)
          IN SameAgain(first, InnerDevice_write_sampler(first.d, h.id, index))
    /\ (last.op \in WriteOps /\ last.result = "ok") =>
          bindless[last.cat][last.index] = last.out

\* C22 happens: the second sampler was written at the slot that already
\* held it from an earlier write, and the table is as it was.
WroteTwice ==
    /\ last.op = "write_sampler" /\ last.result = "ok" /\ ~last.changed
    /\ last.fresh /\ last.intent = 2
    /\ bindless["sampler"][0] = last.out
----------------------------------------------------------------------------
(* Properties of the descriptor upload.                                    *)

\* C23: upload_descriptors returns only after the submission that flushes
\* the pending writes has finished on the GPU: when it returns no submission
\* is outstanding and the GPU table holds every write made before the call;
\* so every command stream submitted after the return runs with all those
\* writes in the table.
UploadReturnsAfterFlush ==
    /\ up.settled <= up.visible
    /\ ~up.stale
    /\ up.op = "upload_return" =>
          /\ up.queues = [q \in Queues |-> <<>>]
          /\ up.visible >= up.called

\* C23 happens: a command stream is submitted after upload_descriptors has
\* returned from flushing two writes, which the GPU table holds.
DrawAfterUpload ==
    /\ up.settled = 2 /\ up.visible = 2
    /\ up.op = "submit" /\ up.queues["graphics"] # <<>>
    /\ Head(up.queues["graphics"]).n = 2
----------------------------------------------------------------------------
(* Properties of two threads on one Device.                                *)

HeldByThreads == UNION {thr.held[t] : t \in Threads}

\* two resources that are held share one id
SharedId == \E a, b \in HeldByThreads : a # b /\ a.id = b.id

\* a resource that is held is not in the pool with its payload
LostPayload ==
    \E h \in HeldByThreads : get_ref(thr.pool, h.id) # [ok |-> TRUE, val |-> h.payload]

----------------------------------------------------------------------------
(* Properties of write_data_to_buffer.                                     *)

\* C27: write_data_to_buffer writes only inside the buffer's own mapped
\* memory, whatever the length of the data: nothing behind the buffer is
\* written and the call is not stopped by a copy past the end; on a buffer
\* with no mapped pointer it fails fatally and writes nothing.
WritesStayInsideBuffer ==
    /\ \A i \in DOMAIN buf.behind : buf.behind[i] = 0
    /\ buf.result # "crash"
    /\ ~buf.mapped =>
          /\ buf.op = "write_data_to_buffer" => buf.result = "panic"
          /\ \A i \in 1..buf.size : buf.mem[i] = 0

\* on a buffer with no mapped pointer the call is fatal and writes nothing;
\* data no longer than the buffer is written inside it
WriteWithinSizeStaysInside ==
    /\ ~buf.mapped =>
          /\ buf.op = "write_data_to_buffer" => buf.result = "panic"
          /\ \A i \in 1..buf.size : buf.mem[i] = 0
          /\ \A i \in DOMAIN buf.behind : buf.behind[i] = 0
    /\ (buf.calls = 1 /\ buf.mapped /\ buf.len <= buf.size) =>
          /\ buf.result = "ok"
          /\ \A i \in DOMAIN buf.behind : buf.behind[i] = 0
          /\ \A i \in 1..buf.size : buf.mem[i] = IF i <= buf.len THEN 1 ELSE 0
----------------------------------------------------------------------------
(* Properties of submit.                                                   *)

\* a list submit accepts: not empty, one queue type, and a queue of the device
Submittable(cmds) ==
    /\ cmds # <<>>
    /\ \A i \in DOMAIN cmds : cmds[i] = cmds[1]
    /\ cmds[1] \in {"Graphics", "Compute", "Transfer"}

\* C28: submit fails fatally, with nothing handed to any queue, unless the
\* command-buffer list is not empty, all its entries have one queue type and
\* that type is Graphics, Compute or Transfer; when these hold the whole
\* list goes in one submission to the queue of that type, with the fence.
SubmitChecksItsBatch ==
    [][sub'.calls = sub.calls + 1 =>
          IF Submittable(sub'.cmds)
          THEN /\ sub'.result = "ok"
               /\ sub'.queues = [sub.queues EXCEPT ![sub'.cmds[1]] =
                                    Append(@, [cmds |-> sub'.cmds, fence |-> sub'.fence])]
          ELSE /\ sub'.result = "panic"
               /\ sub'.queues = sub.queues]_vars

\* C28 happens: two Compute command buffers went to the compute queue in
\* one submission with a fence, after an earlier submit to another queue.
SubmittedBatch ==
    /\ sub.calls = 2 /\ sub.result = "ok" /\ sub.fence = 1
    /\ sub.cmds = <<"Compute", "Compute">>
    /\ sub.queues["Compute"] = <<[cmds |-> sub.cmds, fence |-> 1]>>
    /\ sub.queues["Graphics"] # <<>>
----------------------------------------------------------------------------
(* Properties of the device selection.                                     *)

\* discrete above integrated above any other type
TypeRank(type) == IF type = "discrete" THEN 2 ELSE IF type = "integrated" THEN 1 ELSE 0

\* a ranks above b: by type first, by the larger dimension within a type
RanksAbove(a, b) ==
    \/ TypeRank(a.type) > TypeRank(b.type)
    \/ TypeRank(a.type) = TypeRank(b.type) /\ a.dim > b.dim

EligiblePlaces == {i \in 1..Len(sel.devices) : Eligible(sel.devices[i])}

\* C29: select_physical_device ranks by type first and uses the larger
\* maximum 2D image dimension only between devices of one type; it returns
\* the best ranked of the eligible devices, and none only when no device is
\* eligible.
SelectsBestRanked ==
    sel.done =>
        /\ sel.selected = 0 <=> EligiblePlaces = {}
        /\ sel.selected # 0 =>
              /\ sel.selected \in EligiblePlaces
              /\ \A i \in EligiblePlaces :
                    ~RanksAbove(sel.devices[i], sel.devices[sel.selected])

\* what the code does: the device returned is eligible and none that is
\* eligible has a larger score; none is returned only when none is eligible
SelectsLargestScore ==
    sel.done =>
        /\ sel.selected = 0 <=> EligiblePlaces = {}
        /\ sel.selected # 0 =>
              /\ sel.selected \in EligiblePlaces
              /\ \A i \in EligiblePlaces :
                    score(sel.devices[i]) <= score(sel.devices[sel.selected])
----------------------------------------------------------------------------
(* Properties of the queue family search.                                  *)

\* the indices of the families of the device whose flags satisfy Test
FamiliesWith(Test(_)) == {i \in 0..(Len(fam.families) - 1) : Test(fam.families[i + 1])}

HasGraphics(flags) == "GRAPHICS" \in flags
HasCompute(flags) == "COMPUTE" \in flags
HasTransfer(flags) == "TRANSFER" \in flags
OnlyCompute(flags) == "COMPUTE" \in flags /\ "GRAPHICS" \notin flags
OnlyTransfer(flags) == flags = {"TRANSFER"}

\* C30: for every device that has a graphics family and at least one family
\* supporting compute and one supporting transfer, get_queue_families returns
\* indices with graphics, compute and transfer all set.
CapableDeviceGetsAllIndices ==
    (/\ fam.done
     /\ FamiliesWith(HasGraphics) # {}
     /\ FamiliesWith(HasCompute) # {}
     /\ FamiliesWith(HasTransfer) # {})
        => fam.result.some /\ is_complete(fam.result.indices)

\* what the code does: indices are returned exactly when the device has a
\* graphics family, a compute family without graphics and a family with
\* transfer and neither graphics nor compute; only such families are chosen
OnlyDedicatedFamiliesAreChosen ==
    fam.done =>
        /\ fam.result.some <=>
              /\ FamiliesWith(HasGraphics) # {}
              /\ FamiliesWith(OnlyCompute) # {}
              /\ FamiliesWith(OnlyTransfer) # {}
        /\ fam.result.some =>
              /\ is_complete(fam.result.indices)
              /\ fam.result.indices.graphics_family \subseteq FamiliesWith(HasGraphics)
              /\ fam.result.indices.compute_family \subseteq FamiliesWith(OnlyCompute)
              /\ fam.result.indices.transfer_family \subseteq FamiliesWith(OnlyTransfer)
====
